---- MODULE Spec2Model ----
(***************************************************************************)
(* The nl80211 dump engine of src/src/socket.rs (Socket, blocking) and     *)
(* src/src/async_socket.rs (AsyncSocket, cooperative): connect, the three  *)
(* public queries, and get_info_vec's request / receive loop.              *)
(*                                                                         *)
(* One Connection is modelled per behaviour; `variant` says which of the   *)
(* two implementations it is.  The kernel and the neli router are the      *)
(* environment: the result of NlRouter::connect, of resolve_genl_family,   *)
(* of send, and every item the receive handle yields are chosen            *)
(* nondeterministically.                                                   *)
(***************************************************************************)
EXTENDS Integers, Sequences, FiniteSets, TLC

\* ------------------------------------------------------------------ bounds
MaxMsgs == 3        \* items read from one response stream
MaxRec == 2         \* distinct well-formed attribute sets the kernel emits
MaxIfindex == 1     \* small interface indexes the caller passes
MaxCalls == 2       \* queries issued on the Connection

\* ------------------------------------------------------------ value spaces
Variants == {"Socket", "AsyncSocket"}
FamilyIds == {28, 29}
\* interface_index is an i32: small indexes and the ends of the range.
I32Max == 2147483647
I32Min == -I32Max - 1
Ifindexes == (1..MaxIfindex) \cup {I32Min, I32Max}
Cmds == {"CmdGetInterface", "CmdGetStation", "CmdGetScan"}
Ops == {"get_interfaces_info", "get_station_info", "get_bss_info"}

None == [some |-> FALSE, v |-> 0]
Some(i) == [some |-> TRUE, v |-> i]

NoOutcome == [tag |-> "None", val |-> <<>>, err |-> ""]
Ok(v) == [tag |-> "Ok", val |-> v, err |-> ""]
Err(e) == [tag |-> "Err", val |-> <<>>, err |-> e]
Panic(m) == [tag |-> "Panic", val |-> <<>>, err |-> m]

\* What the receive handle can yield: the end of the stream (None), a receive
\* failure (Some(Err)), or a message (Some(Ok)) with its nl_type and payload.
ControlTypes == {"Noop", "Error", "Done"}
PayloadTypes == {"Overrun", "Family"}
StreamEnd == [kind |-> "None", nl_type |-> "-", has_payload |-> FALSE,
              wellformed |-> FALSE, ifindex |-> 0]
RecvErr == [kind |-> "Err", nl_type |-> "-", has_payload |-> FALSE,
            wellformed |-> FALSE, ifindex |-> 0]
Msg(t, hp, wf, a) == [kind |-> "Msg", nl_type |-> t, has_payload |-> hp,
                      wellformed |-> wf, ifindex |-> a]
StreamItems ==
    {StreamEnd, RecvErr}
    \cup {Msg(t, FALSE, FALSE, 0) : t \in ControlTypes \cup PayloadTypes}
    \cup {Msg(t, TRUE, FALSE, 0) : t \in PayloadTypes}
    \cup {Msg(t, TRUE, TRUE, a) : t \in PayloadTypes, a \in 1..MaxRec}

\* T::try_from(attrs): the record of a well-formed attribute set, a DeError
\* for a malformed one.
TryFrom_Attrs(m) ==
    IF m.wellformed
    THEN [ok |-> TRUE, rec |-> [index |-> Some(m.ifindex)]]
    ELSE [ok |-> FALSE, rec |-> [index |-> None]]

\* The payload of a 32-bit integer attribute: its four two's-complement bytes,
\* least significant first, and the integer read back from them.
ToBytes_i32(i) ==
    <<i % 256, (i \div 256) % 256, (i \div 65536) % 256,
      (i \div 16777216) % 256>>

FromBytes_i32(b) ==
    b[1] + 256 * b[2] + 65536 * b[3]
      + 16777216 * (IF b[4] >= 128 THEN b[4] - 256 ELSE b[4])

NoRequest == [family_id |-> 0, flags |-> {}, cmd |-> "-", version |-> "-",
              attrs |-> <<>>]
NoArgs == [op |-> "-", interface_index |-> None, cmd |-> "-"]
NoConn == [open |-> FALSE, family_id |-> 0]
NoConnectIn == [called |-> FALSE, transport_ok |-> FALSE, resolve_ok |-> FALSE,
                resolved |-> 0]

VARIABLES
    variant,        \* which implementation the Connection is
    conn,           \* the Socket / AsyncSocket value: router + family_id
    connect_in,     \* what the environment answered during connect
    connect_result, \* connect's return: "None" (not called), "Ok", "Err"
    resolve_calls,  \* resolve_genl_family invocations so far
    ncalls,         \* queries started so far
    args,           \* the running (or last) query: public op, interface_index, cmd
    send_ok,        \* whether router.send succeeded for that query
    nsent,          \* requests accepted by router.send so far
    request,        \* the last request handed to router.send
    pc,             \* "Idle" | "Receiving" | "Returned" | "Panicked"
    retval,         \* get_info_vec's accumulator
    hist,           \* items the receive handle has yielded to this query
    outcome,        \* the query's result, NoOutcome while it runs
    prev,           \* the previous query ended in Err with records accumulated
    cur,            \* which of two Connections the variables above describe
    peer            \* the other Connection, while the scheduler runs this one

vars == <<variant, conn, connect_in, connect_result, resolve_calls, ncalls,
          args, send_ok, nsent, request, pc, retval, hist, outcome, prev,
          cur, peer>>

connVars == <<conn, connect_in, connect_result, resolve_calls>>
pairVars == <<cur, peer>>

\* Everything one Connection and its running query hold.
Self ==
    [variant |-> variant, conn |-> conn, connect_in |-> connect_in,
     connect_result |-> connect_result, resolve_calls |-> resolve_calls,
     ncalls |-> ncalls, args |-> args, send_ok |-> send_ok, nsent |-> nsent,
     request |-> request, pc |-> pc, retval |-> retval, hist |-> hist,
     outcome |-> outcome, prev |-> prev]

\* A Connection before connect is called, of implementation v.
Unconnected(v) ==
    [variant |-> v, conn |-> NoConn, connect_in |-> NoConnectIn,
     connect_result |-> "None", resolve_calls |-> 0,
     ncalls |-> 0, args |-> NoArgs, send_ok |-> FALSE, nsent |-> 0,
     request |-> NoRequest, pc |-> "Idle", retval |-> <<>>, hist |-> <<>>,
     outcome |-> NoOutcome, prev |-> FALSE]

Init ==
    /\ variant \in Variants
    /\ conn = NoConn
    /\ connect_in = NoConnectIn
    /\ connect_result = "None"
    /\ resolve_calls = 0
    /\ ncalls = 0
    /\ args = NoArgs
    /\ send_ok = FALSE
    /\ nsent = 0
    /\ request = NoRequest
    /\ pc = "Idle"
    /\ retval = <<>>
    /\ hist = <<>>
    /\ outcome = NoOutcome
    /\ prev = FALSE
    /\ cur = 1
    /\ peer = Unconnected(variant)


\* ------------------------------------------------------- socket.rs: Socket

\* Socket::connect: NlRouter::connect(..)? then resolve_genl_family(..)?; the
\* Socket exists only when both succeeded.
Socket_connect ==
    /\ variant = "Socket"
    /\ connect_result = "None"
    /\ \E t \in BOOLEAN, r \in BOOLEAN, id \in FamilyIds :
        /\ connect_in' = [called |-> TRUE, transport_ok |-> t,
                          resolve_ok |-> t /\ r,
                          resolved |-> IF t /\ r THEN id ELSE 0]
        /\ resolve_calls' = IF t THEN resolve_calls + 1 ELSE resolve_calls
        /\ IF t /\ r
           THEN /\ conn' = [open |-> TRUE, family_id |-> id]
                /\ connect_result' = "Ok"
           ELSE /\ conn' = conn
                /\ connect_result' = "Err"
    /\ UNCHANGED <<variant, ncalls, args, send_ok, nsent, request, pc, retval,
                   hist, outcome, prev, pairVars>>

\* Mutant: the index is narrowed to 16 bits before it is stored.
Socket_msghdr_Narrowed(interface_index, cmd) ==
    [cmd |-> cmd,
     version |-> "NL_80211_GENL_VERSION",
     attrs |-> IF interface_index.some
               THEN <<[nla_type |-> "AttrIfindex",
                       nla_payload |-> ToBytes_i32(interface_index.v % 65536)]>>
               ELSE <<>>]

\* The Genlmsghdr get_info_vec builds: cmd, version, and one AttrIfindex
\* attribute when interface_index is Some.
Socket_msghdr(interface_index, cmd) ==
    [cmd |-> cmd,
     version |-> "NL_80211_GENL_VERSION",
     attrs |-> IF interface_index.some
               THEN <<[nla_type |-> "AttrIfindex",
                       nla_payload |-> ToBytes_i32(interface_index.v)]>>
               ELSE <<>>]

\* Mutant: the request goes out without the dump flag.
Socket_send_NoDump(family_id, msghdr) ==
    [family_id |-> family_id,
     flags |-> {"REQUEST"},
     cmd |-> msghdr.cmd,
     version |-> msghdr.version,
     attrs |-> msghdr.attrs]

\* What router.send is handed: the family id, REQUEST | DUMP, the payload.
Socket_send(family_id, msghdr) ==
    [family_id |-> family_id,
     flags |-> {"REQUEST", "DUMP"},
     cmd |-> msghdr.cmd,
     version |-> msghdr.version,
     attrs |-> msghdr.attrs]

\* The arms of `match Nlmsg::from(*response.nl_type())`: the frame each leaves.
\* Mutant: a no-op ends the loop as end-of-dump does.
Socket_match_Noop_Break(acc) ==
    [pc |-> "Returned", retval |-> acc, outcome |-> Ok(acc)]

\* Nlmsg::Noop => ()
Socket_match_Noop(acc) ==
    [pc |-> "Receiving", retval |-> acc, outcome |-> NoOutcome]

\* Nlmsg::Error => panic!("Error")
Socket_match_Error(acc) ==
    [pc |-> "Panicked", retval |-> acc, outcome |-> Panic("Error")]

\* Mutant: end-of-dump does not leave the loop.
Socket_match_Done_Continue(acc) ==
    [pc |-> "Receiving", retval |-> acc, outcome |-> NoOutcome]

\* Nlmsg::Done => break, then Ok(retval)
Socket_match_Done(acc) ==
    [pc |-> "Returned", retval |-> acc, outcome |-> Ok(acc)]

\* Mutant: the decoded record is inserted at the front of the accumulator.
Socket_match_other_Prepend(acc, item) ==
    IF ~item.has_payload
    THEN [pc |-> "Panicked", retval |-> acc, outcome |-> Panic("unwrap")]
    ELSE IF ~TryFrom_Attrs(item).ok
    THEN [pc |-> "Returned", retval |-> acc, outcome |-> Err("DeError")]
    ELSE [pc |-> "Receiving",
          retval |-> <<TryFrom_Attrs(item).rec>> \o acc,
          outcome |-> NoOutcome]

\* _ => retval.push(response.get_payload().unwrap()...try_into()?)
Socket_match_other(acc, item) ==
    IF ~item.has_payload
    THEN [pc |-> "Panicked", retval |-> acc, outcome |-> Panic("unwrap")]
    ELSE IF ~TryFrom_Attrs(item).ok
    THEN [pc |-> "Returned", retval |-> acc, outcome |-> Err("DeError")]
    ELSE [pc |-> "Receiving",
          retval |-> Append(acc, TryFrom_Attrs(item).rec),
          outcome |-> NoOutcome]

\* Mutant: an overrun message has an arm of its own and is skipped.
Socket_loop_OverrunSkipped(acc, item) ==
    IF item.kind = "None"
    THEN [pc |-> "Returned", retval |-> acc, outcome |-> Ok(acc)]
    ELSE IF item.kind = "Err"
    THEN [pc |-> "Panicked", retval |-> acc, outcome |-> Panic("unwrap")]
    ELSE CASE item.nl_type = "Noop" -> Socket_match_Noop(acc)
           [] item.nl_type = "Error" -> Socket_match_Error(acc)
           [] item.nl_type = "Done" -> Socket_match_Done(acc)
           [] item.nl_type = "Overrun" -> Socket_match_Noop(acc)
           [] OTHER -> Socket_match_other(acc, item)

\* One iteration of `for response in receive_handle`, from the accumulator and
\* the item the handle yields: the loop ends with Ok(retval) when the handle is
\* exhausted, response.unwrap() panics on a receive failure, and a message is
\* matched on its type.
Socket_loop(acc, item) ==
    IF item.kind = "None"
    THEN [pc |-> "Returned", retval |-> acc, outcome |-> Ok(acc)]
    ELSE IF item.kind = "Err"
    THEN [pc |-> "Panicked", retval |-> acc, outcome |-> Panic("unwrap")]
    ELSE CASE item.nl_type = "Noop" -> Socket_match_Noop(acc)
           [] item.nl_type = "Error" -> Socket_match_Error(acc)
           [] item.nl_type = "Done" -> Socket_match_Done(acc)
           [] OTHER -> Socket_match_other(acc, item)

\* Mutant: the accumulator outlives the call and is not emptied.
Socket_get_info_vec_KeepsRetval(op, interface_index, cmd) ==
    /\ variant = "Socket"
    /\ conn.open
    /\ pc \in {"Idle", "Returned"}
    /\ ncalls < MaxCalls
    /\ \E ok \in BOOLEAN :
        /\ ncalls' = ncalls + 1
        /\ args' = [op |-> op, interface_index |-> interface_index, cmd |-> cmd]
        /\ request' = Socket_send(conn.family_id,
                                  Socket_msghdr(interface_index, cmd))
        /\ send_ok' = ok
        /\ nsent' = IF ok THEN nsent + 1 ELSE nsent
        /\ retval' = retval
        /\ hist' = <<>>
        /\ pc' = IF ok THEN "Receiving" ELSE "Returned"
        /\ outcome' = IF ok THEN NoOutcome ELSE Err("send")
        /\ prev' = (outcome.tag = "Err" /\ retval # <<>>)
    /\ UNCHANGED <<variant, connVars, pairVars>>

\* get_info_vec up to its first read: build the request, send it, and on
\* success start from an empty accumulator.
Socket_get_info_vec(op, interface_index, cmd) ==
    /\ variant = "Socket"
    /\ conn.open
    /\ pc \in {"Idle", "Returned"}
    /\ ncalls < MaxCalls
    /\ \E ok \in BOOLEAN :
        /\ ncalls' = ncalls + 1
        /\ args' = [op |-> op, interface_index |-> interface_index, cmd |-> cmd]
        /\ request' = Socket_send(conn.family_id,
                                  Socket_msghdr(interface_index, cmd))
        /\ send_ok' = ok
        /\ nsent' = IF ok THEN nsent + 1 ELSE nsent
        /\ retval' = <<>>
        /\ hist' = <<>>
        /\ pc' = IF ok THEN "Receiving" ELSE "Returned"
        /\ outcome' = IF ok THEN NoOutcome ELSE Err("send")
        /\ prev' = (outcome.tag = "Err" /\ retval # <<>>)
    /\ UNCHANGED <<variant, connVars, pairVars>>

\* Mutant: the interface listing is sent with an interface-index filter.
Socket_get_interfaces_info_Filtered ==
    \E interface_index \in Ifindexes :
        Socket_get_info_vec("get_interfaces_info", Some(interface_index),
                            "CmdGetInterface")

Socket_get_interfaces_info ==
    Socket_get_info_vec("get_interfaces_info", None, "CmdGetInterface")

Socket_get_station_info ==
    \E interface_index \in Ifindexes :
        Socket_get_info_vec("get_station_info", Some(interface_index),
                            "CmdGetStation")

Socket_get_bss_info ==
    \E interface_index \in Ifindexes :
        Socket_get_info_vec("get_bss_info", Some(interface_index),
                            "CmdGetScan")

\* Mutant: the accumulator is shared by every Socket instead of being a local
\* of the call.
Socket_next_SharedAccumulator ==
    /\ variant = "Socket"
    /\ pc = "Receiving"
    /\ Len(hist) < MaxMsgs
    /\ \E item \in StreamItems :
        LET f == Socket_loop(retval, item) IN
        /\ hist' = Append(hist, item)
        /\ pc' = f.pc
        /\ retval' = f.retval
        /\ outcome' = f.outcome
        /\ peer' = [peer EXCEPT !.retval = f.retval]
    /\ UNCHANGED <<variant, connVars, ncalls, args, send_ok, nsent, request,
                   prev, cur>>

\* The blocked read returns: the receive handle yields its next item and the
\* loop body runs on it.
Socket_next ==
    /\ variant = "Socket"
    /\ pc = "Receiving"
    /\ Len(hist) < MaxMsgs
    /\ \E item \in StreamItems :
        LET f == Socket_loop(retval, item) IN
        /\ hist' = Append(hist, item)
        /\ pc' = f.pc
        /\ retval' = f.retval
        /\ outcome' = f.outcome
    /\ UNCHANGED <<variant, connVars, ncalls, args, send_ok, nsent, request,
                   prev, pairVars>>

\* get_info_vec run on a given prefix of its response stream: the frame after
\* router.send answered `ok` and the handle yielded `items`.
RECURSIVE Socket_fold(_, _)
Socket_fold(f, items) ==
    IF items = <<>> \/ f.pc # "Receiving"
    THEN f
    ELSE Socket_fold(Socket_loop(f.retval, Head(items)), Tail(items))

Socket_run(interface_index, cmd, family_id, ok, items) ==
    [request |-> Socket_send(family_id, Socket_msghdr(interface_index, cmd)),
     frame |-> Socket_fold(
         IF ok
         THEN [pc |-> "Receiving", retval |-> <<>>, outcome |-> NoOutcome]
         ELSE [pc |-> "Returned", retval |-> <<>>, outcome |-> Err("send")],
         items)]

\* ------------------------------------------------------- async_socket.rs: AsyncSocket

\* Mutant: a failed resolution is replaced by family id 0 and the socket built.
AsyncSocket_connect_Unchecked ==
    /\ variant = "AsyncSocket"
    /\ connect_result = "None"
    /\ \E t \in BOOLEAN, r \in BOOLEAN, id \in FamilyIds :
        /\ connect_in' = [called |-> TRUE, transport_ok |-> t,
                          resolve_ok |-> t /\ r,
                          resolved |-> IF t /\ r THEN id ELSE 0]
        /\ resolve_calls' = IF t THEN resolve_calls + 1 ELSE resolve_calls
        /\ IF t
           THEN /\ conn' = [open |-> TRUE, family_id |-> IF r THEN id ELSE 0]
                /\ connect_result' = "Ok"
           ELSE /\ conn' = conn
                /\ connect_result' = "Err"
    /\ UNCHANGED <<variant, ncalls, args, send_ok, nsent, request, pc, retval,
                   hist, outcome, prev, pairVars>>

\* AsyncSocket::connect: NlRouter::connect(..).await? then resolve_genl_family(..).await?; the
\* Socket exists only when both succeeded.
AsyncSocket_connect ==
    /\ variant = "AsyncSocket"
    /\ connect_result = "None"
    /\ \E t \in BOOLEAN, r \in BOOLEAN, id \in FamilyIds :
        /\ connect_in' = [called |-> TRUE, transport_ok |-> t,
                          resolve_ok |-> t /\ r,
                          resolved |-> IF t /\ r THEN id ELSE 0]
        /\ resolve_calls' = IF t THEN resolve_calls + 1 ELSE resolve_calls
        /\ IF t /\ r
           THEN /\ conn' = [open |-> TRUE, family_id |-> id]
                /\ connect_result' = "Ok"
           ELSE /\ conn' = conn
                /\ connect_result' = "Err"
    /\ UNCHANGED <<variant, ncalls, args, send_ok, nsent, request, pc, retval,
                   hist, outcome, prev, pairVars>>

\* The Genlmsghdr get_info_vec builds: cmd, version, and one AttrIfindex
\* attribute when interface_index is Some.
AsyncSocket_msghdr(interface_index, cmd) ==
    [cmd |-> cmd,
     version |-> "NL_80211_GENL_VERSION",
     attrs |-> IF interface_index.some
               THEN <<[nla_type |-> "AttrIfindex",
                       nla_payload |-> ToBytes_i32(interface_index.v)]>>
               ELSE <<>>]

\* What router.send is handed: the family id, REQUEST | DUMP, the payload.
AsyncSocket_send(family_id, msghdr) ==
    [family_id |-> family_id,
     flags |-> {"REQUEST", "DUMP"},
     cmd |-> msghdr.cmd,
     version |-> msghdr.version,
     attrs |-> msghdr.attrs]

\* The arms of `match Nlmsg::from(*response.nl_type())`: the frame each leaves.
\* Nlmsg::Noop => ()
AsyncSocket_match_Noop(acc) ==
    [pc |-> "Receiving", retval |-> acc, outcome |-> NoOutcome]

\* Mutant: only the cooperative variant returns the kernel error as a value.
AsyncSocket_match_Error_Returned(acc) ==
    [pc |-> "Returned", retval |-> acc, outcome |-> Err("Nlmsgerr")]

\* Nlmsg::Error => panic!("Error")
AsyncSocket_match_Error(acc) ==
    [pc |-> "Panicked", retval |-> acc, outcome |-> Panic("Error")]

\* Nlmsg::Done => break, then Ok(retval)
AsyncSocket_match_Done(acc) ==
    [pc |-> "Returned", retval |-> acc, outcome |-> Ok(acc)]

\* Mutant: a payload that fails to decode is skipped and the loop goes on.
AsyncSocket_match_other_Skip(acc, item) ==
    IF ~item.has_payload
    THEN [pc |-> "Panicked", retval |-> acc, outcome |-> Panic("unwrap")]
    ELSE IF ~TryFrom_Attrs(item).ok
    THEN [pc |-> "Receiving", retval |-> acc, outcome |-> NoOutcome]
    ELSE [pc |-> "Receiving",
          retval |-> Append(acc, TryFrom_Attrs(item).rec),
          outcome |-> NoOutcome]

\* _ => retval.push(response.get_payload().unwrap()...try_into()?)
AsyncSocket_match_other(acc, item) ==
    IF ~item.has_payload
    THEN [pc |-> "Panicked", retval |-> acc, outcome |-> Panic("unwrap")]
    ELSE IF ~TryFrom_Attrs(item).ok
    THEN [pc |-> "Returned", retval |-> acc, outcome |-> Err("DeError")]
    ELSE [pc |-> "Receiving",
          retval |-> Append(acc, TryFrom_Attrs(item).rec),
          outcome |-> NoOutcome]

\* One iteration of `while let Some(response) = receive_handle.next().await`, from the accumulator and
\* the item the handle yields: the loop ends with Ok(retval) when the handle is
\* exhausted, response.unwrap() panics on a receive failure, and a message is
\* matched on its type.
AsyncSocket_loop(acc, item) ==
    IF item.kind = "None"
    THEN [pc |-> "Returned", retval |-> acc, outcome |-> Ok(acc)]
    ELSE IF item.kind = "Err"
    THEN [pc |-> "Panicked", retval |-> acc, outcome |-> Panic("unwrap")]
    ELSE CASE item.nl_type = "Noop" -> AsyncSocket_match_Noop(acc)
           [] item.nl_type = "Error" -> AsyncSocket_match_Error(acc)
           [] item.nl_type = "Done" -> AsyncSocket_match_Done(acc)
           [] OTHER -> AsyncSocket_match_other(acc, item)

\* Mutant: the result of router.send is not looked at and the loop is entered.
AsyncSocket_get_info_vec_SendUnchecked(op, interface_index, cmd) ==
    /\ variant = "AsyncSocket"
    /\ conn.open
    /\ pc \in {"Idle", "Returned"}
    /\ ncalls < MaxCalls
    /\ \E ok \in BOOLEAN :
        /\ ncalls' = ncalls + 1
        /\ args' = [op |-> op, interface_index |-> interface_index, cmd |-> cmd]
        /\ request' = AsyncSocket_send(conn.family_id,
                                       AsyncSocket_msghdr(interface_index, cmd))
        /\ send_ok' = ok
        /\ nsent' = IF ok THEN nsent + 1 ELSE nsent
        /\ retval' = <<>>
        /\ hist' = <<>>
        /\ pc' = "Receiving"
        /\ outcome' = NoOutcome
        /\ prev' = (outcome.tag = "Err" /\ retval # <<>>)
    /\ UNCHANGED <<variant, connVars, pairVars>>

\* get_info_vec up to its first read: build the request, send it, and on
\* success start from an empty accumulator.
AsyncSocket_get_info_vec(op, interface_index, cmd) ==
    /\ variant = "AsyncSocket"
    /\ conn.open
    /\ pc \in {"Idle", "Returned"}
    /\ ncalls < MaxCalls
    /\ \E ok \in BOOLEAN :
        /\ ncalls' = ncalls + 1
        /\ args' = [op |-> op, interface_index |-> interface_index, cmd |-> cmd]
        /\ request' = AsyncSocket_send(conn.family_id,
                                  AsyncSocket_msghdr(interface_index, cmd))
        /\ send_ok' = ok
        /\ nsent' = IF ok THEN nsent + 1 ELSE nsent
        /\ retval' = <<>>
        /\ hist' = <<>>
        /\ pc' = IF ok THEN "Receiving" ELSE "Returned"
        /\ outcome' = IF ok THEN NoOutcome ELSE Err("send")
        /\ prev' = (outcome.tag = "Err" /\ retval # <<>>)
    /\ UNCHANGED <<variant, connVars, pairVars>>

AsyncSocket_get_interfaces_info ==
    AsyncSocket_get_info_vec("get_interfaces_info", None, "CmdGetInterface")

AsyncSocket_get_station_info ==
    \E interface_index \in Ifindexes :
        AsyncSocket_get_info_vec("get_station_info", Some(interface_index),
                            "CmdGetStation")

AsyncSocket_get_bss_info ==
    \E interface_index \in Ifindexes :
        AsyncSocket_get_info_vec("get_bss_info", Some(interface_index),
                            "CmdGetScan")

\* The suspended read is resumed: the receive handle yields its next item and the
\* loop body runs on it.
AsyncSocket_next ==
    /\ variant = "AsyncSocket"
    /\ pc = "Receiving"
    /\ Len(hist) < MaxMsgs
    /\ \E item \in StreamItems :
        LET f == AsyncSocket_loop(retval, item) IN
        /\ hist' = Append(hist, item)
        /\ pc' = f.pc
        /\ retval' = f.retval
        /\ outcome' = f.outcome
    /\ UNCHANGED <<variant, connVars, ncalls, args, send_ok, nsent, request,
                   prev, pairVars>>

\* get_info_vec run on a given prefix of its response stream: the frame after
\* router.send answered `ok` and the handle yielded `items`.
RECURSIVE AsyncSocket_fold(_, _)
AsyncSocket_fold(f, items) ==
    IF items = <<>> \/ f.pc # "Receiving"
    THEN f
    ELSE AsyncSocket_fold(AsyncSocket_loop(f.retval, Head(items)), Tail(items))

AsyncSocket_run(interface_index, cmd, family_id, ok, items) ==
    [request |-> AsyncSocket_send(family_id, AsyncSocket_msghdr(interface_index, cmd)),
     frame |-> AsyncSocket_fold(
         IF ok
         THEN [pc |-> "Receiving", retval |-> <<>>, outcome |-> NoOutcome]
         ELSE [pc |-> "Returned", retval |-> <<>>, outcome |-> Err("send")],
         items)]

\* ------------------------------------------------------------ specification
Next ==
    \/ Socket_connect
    \/ Socket_get_interfaces_info
    \/ Socket_get_station_info
    \/ Socket_get_bss_info
    \/ Socket_next
    \/ AsyncSocket_connect
    \/ AsyncSocket_get_interfaces_info
    \/ AsyncSocket_get_station_info
    \/ AsyncSocket_get_bss_info
    \/ AsyncSocket_next

Spec == Init /\ [][Next]_vars

\* ------------------------------------------------ two Connections at once
\* Two Connections, each owning its router, run by threads (Socket) or tasks
\* (AsyncSocket) the scheduler switches between at any step.  The variables
\* describe the Connection that is running; `peer` holds the other one.
PairCalls == 1      \* queries issued on each of the two Connections
PairMsgs == 2       \* items read from each of their response streams

\* The kernel's answers to Connection k in this setting: records of interface
\* k, a malformed attribute set, and the end of the dump.
PairItems(k) ==
    {Msg("Done", FALSE, FALSE, 0), Msg("Family", TRUE, FALSE, 0),
     Msg("Family", TRUE, TRUE, k)}

PairBound ==
    /\ ncalls <= PairCalls
    /\ Len(hist) <= PairMsgs
    /\ args.interface_index \in {None, Some(MaxIfindex)}
    /\ \A i \in 1..Len(hist) : hist[i] \in PairItems(cur)

PairInit ==
    /\ variant \in Variants
    /\ conn = NoConn
    /\ connect_in = NoConnectIn
    /\ connect_result = "None"
    /\ resolve_calls = 0
    /\ ncalls = 0
    /\ args = NoArgs
    /\ send_ok = FALSE
    /\ nsent = 0
    /\ request = NoRequest
    /\ pc = "Idle"
    /\ retval = <<>>
    /\ hist = <<>>
    /\ outcome = NoOutcome
    /\ prev = FALSE
    /\ cur = 1
    /\ peer \in {Unconnected(v) : v \in Variants}

\* The scheduler runs the other Connection.
Switch ==
    /\ cur' = 3 - cur
    /\ peer' = Self
    /\ variant' = peer.variant
    /\ conn' = peer.conn
    /\ connect_in' = peer.connect_in
    /\ connect_result' = peer.connect_result
    /\ resolve_calls' = peer.resolve_calls
    /\ ncalls' = peer.ncalls
    /\ args' = peer.args
    /\ send_ok' = peer.send_ok
    /\ nsent' = peer.nsent
    /\ request' = peer.request
    /\ pc' = peer.pc
    /\ retval' = peer.retval
    /\ hist' = peer.hist
    /\ outcome' = peer.outcome
    /\ prev' = peer.prev

PairNext ==
    \/ Socket_connect /\ PairBound'
    \/ Socket_get_interfaces_info /\ PairBound'
    \/ Socket_get_station_info /\ PairBound'
    \/ Socket_get_bss_info /\ PairBound'
    \/ Socket_next /\ PairBound'
    \/ AsyncSocket_connect /\ PairBound'
    \/ AsyncSocket_get_interfaces_info /\ PairBound'
    \/ AsyncSocket_get_station_info /\ PairBound'
    \/ AsyncSocket_get_bss_info /\ PairBound'
    \/ AsyncSocket_next /\ PairBound'
    \/ Switch

SpecPair == PairInit /\ [][PairNext]_vars

TypeOK ==
    /\ variant \in Variants
    /\ pc \in {"Idle", "Receiving", "Returned", "Panicked"}
    /\ ncalls \in 0..MaxCalls
    /\ nsent \in 0..ncalls
    /\ Len(hist) <= MaxMsgs
    /\ \A i \in 1..Len(hist) : hist[i] \in StreamItems
    /\ outcome.tag \in {"None", "Ok", "Err", "Panic"}
    /\ args.op \in Ops \cup {"-"}
    /\ args.cmd \in Cmds \cup {"-"}


\* ------------------------------------------------------------------ claims
IsNoop(m) == m.kind = "Msg" /\ m.nl_type = "Noop"
IsError(m) == m.kind = "Msg" /\ m.nl_type = "Error"
IsDone(m) == m.kind = "Msg" /\ m.nl_type = "Done"
\* An ordinary-payload message: not no-op, error or end-of-dump, and it
\* carries an attribute set; Decodable when that set decodes to a record.
IsPayload(m) == m.kind = "Msg" /\ m.nl_type \notin ControlTypes /\ m.has_payload
Decodable(m) == IsPayload(m) /\ TryFrom_Attrs(m).ok
Last(h) == h[Len(h)]
Front(h) == SubSeq(h, 1, Len(h) - 1)
Records(h) == [i \in 1..Len(h) |-> TryFrom_Attrs(h[i]).rec]
Frame == [pc |-> pc, retval |-> retval, outcome |-> outcome]
StripNoop(h) == SelectSeq(h, LAMBDA m : ~IsNoop(m))
NumPayloads(h) == Len(SelectSeq(h, IsPayload))
\* The stream with every message that is not no-op, error or end-of-dump given
\* the type of an ordinary family message.
Retype(h) ==
    [i \in 1..Len(h) |->
        IF h[i].kind = "Msg" /\ h[i].nl_type \notin ControlTypes
        THEN [h[i] EXCEPT !.nl_type = "Family"]
        ELSE h[i]]
RunOf(v, interface_index, cmd, family_id, ok, items) ==
    IF v = "Socket"
    THEN Socket_run(interface_index, cmd, family_id, ok, items)
    ELSE AsyncSocket_run(interface_index, cmd, family_id, ok, items)

\* C1: a response stream of N >= 0 ordinary-payload messages (each of which
\* decodes) followed by one end-of-dump message makes the query return Ok of
\* exactly N records, the i-th being the decoding of the i-th message; for
\* N = 0 the result is Ok of the empty list.
C1_DumpYieldsRecordsInOrder ==
    (/\ hist # <<>>
     /\ IsDone(Last(hist))
     /\ \A i \in 1..(Len(hist) - 1) : Decodable(hist[i]))
    => /\ pc = "Returned"
       /\ outcome.tag = "Ok"
       /\ Len(outcome.val) = Len(hist) - 1
       /\ outcome.val = Records(Front(hist))

\* Two different payloads then end-of-dump have been read and the query
\* returned Ok.
C1_Witness ==
    /\ Len(hist) = 3
    /\ Decodable(hist[1]) /\ Decodable(hist[2]) /\ IsDone(hist[3])
    /\ hist[1].ifindex # hist[2].ifindex
    /\ outcome.tag = "Ok"

\* C2: a kernel-error message read after k >= 0 ordinary-payload messages and
\* before any end-of-dump makes the query return an error value to its
\* caller (and no list).
C2_KernelErrorReturnsErr ==
    (/\ hist # <<>>
     /\ IsError(Last(hist))
     /\ \A i \in 1..(Len(hist) - 1) : Decodable(hist[i]))
    => /\ pc = "Returned"
       /\ outcome.tag = "Err"

\* C3: whatever the response stream holds, the query ends in a result value
\* (Ok or Err); it never panics.
C3_NeverPanics ==
    pc # "Panicked" /\ outcome.tag # "Panic"

\* C4: the request a public query sends carries an interface-index filter
\* attribute if and only if its command is get-station or get-scan:
\* get_interfaces_info sends CmdGetInterface without a filter,
\* get_station_info CmdGetStation with one, get_bss_info CmdGetScan with one,
\* and no other command / filter combination is sent.
C4_FilterIffStationOrScan ==
    ncalls > 0 =>
        /\ request.cmd \in Cmds
        /\ Len(request.attrs) <= 1
        /\ \A i \in 1..Len(request.attrs) :
              request.attrs[i].nla_type = "AttrIfindex"
        /\ (request.attrs # <<>>)
              <=> (request.cmd \in {"CmdGetStation", "CmdGetScan"})
        /\ args.op = "get_interfaces_info" =>
              request.cmd = "CmdGetInterface" /\ request.attrs = <<>>
        /\ args.op = "get_station_info" =>
              request.cmd = "CmdGetStation" /\ Len(request.attrs) = 1
        /\ args.op = "get_bss_info" =>
              request.cmd = "CmdGetScan" /\ Len(request.attrs) = 1

\* get_bss_info's request went out with its filter attribute.
C4_Witness ==
    /\ nsent > 0 /\ send_ok
    /\ args.op = "get_bss_info"
    /\ request.cmd = "CmdGetScan"
    /\ Len(request.attrs) = 1

\* C5: when establishing the transport or resolving the family fails, connect
\* returns an error and no Connection exists afterwards, so no query is ever
\* issued; a Connection that exists holds the resolved family id; resolution
\* is attempted at most once, and not at all when the transport failed.
C5_ConnectFailureLeavesNoConnection ==
    /\ (connect_in.called /\ ~(connect_in.transport_ok /\ connect_in.resolve_ok))
          => /\ connect_result = "Err"
             /\ ~conn.open
             /\ ncalls = 0 /\ nsent = 0 /\ request = NoRequest
    /\ conn.open
          => /\ connect_result = "Ok"
             /\ connect_in.transport_ok /\ connect_in.resolve_ok
             /\ conn.family_id = connect_in.resolved
    /\ ncalls > 0 => request.family_id = connect_in.resolved
    /\ resolve_calls <= 1
    /\ (connect_in.called /\ ~connect_in.transport_ok) => resolve_calls = 0

\* The transport was established, the single resolution failed, and connect
\* returned an error.
C5_Witness ==
    /\ connect_in.called
    /\ connect_in.transport_ok /\ ~connect_in.resolve_ok
    /\ resolve_calls = 1
    /\ connect_result = "Err"

\* C6: Socket and AsyncSocket are observationally equivalent: on the command,
\* filter, send result and response-stream prefix the running variant has
\* seen, the other variant's get_info_vec hands the same request to send and
\* is in the same dispatcher state with the same accumulator and the same
\* outcome.
C6_VariantsEquivalent ==
    ncalls > 0 =>
        LET other ==
              IF variant = "Socket"
              THEN AsyncSocket_run(args.interface_index, args.cmd,
                                   conn.family_id, send_ok, hist)
              ELSE Socket_run(args.interface_index, args.cmd,
                              conn.family_id, send_ok, hist)
        IN /\ other.request = request
           /\ other.frame = Frame

\* The cooperative variant returned a two-record list after a no-op.
C6_Witness ==
    /\ variant = "AsyncSocket"
    /\ Len(hist) = 3
    /\ IsNoop(hist[1]) /\ Decodable(hist[2]) /\ IsDone(hist[3])
    /\ args.cmd = "CmdGetStation"
    /\ outcome = Ok(<<TryFrom_Attrs(hist[2]).rec>>)

\* C8: a no-op message leaves the dispatcher in Receiving with the
\* accumulator unchanged, so the frame reached on a response-stream prefix is
\* the frame reached on that prefix with its no-op messages removed.
C8_NoopDiscarded ==
    (ncalls > 0 /\ send_ok) =>
        /\ (hist # <<>> /\ IsNoop(Last(hist)))
              => pc = "Receiving" /\ outcome = NoOutcome
        /\ Frame =
              (IF variant = "Socket"
               THEN Socket_run(args.interface_index, args.cmd, conn.family_id,
                               send_ok, StripNoop(hist))
               ELSE AsyncSocket_run(args.interface_index, args.cmd,
                                    conn.family_id, send_ok, StripNoop(hist))
              ).frame

\* A no-op was read between a payload and end-of-dump, and the dump returned
\* that one record.
C8_Witness ==
    /\ Len(hist) = 3
    /\ Decodable(hist[1]) /\ IsNoop(hist[2]) /\ IsDone(hist[3])
    /\ outcome = Ok(<<TryFrom_Attrs(hist[1]).rec>>)

\* C9: Done and Failed are terminal: nothing is read from the response stream
\* after an end-of-dump message or after the item the dump failed on, so every
\* item read before the last one is a no-op or a decoded payload, and after
\* end-of-dump the result is the accumulator as it then stood.
C9_TerminalReadsNothing ==
    /\ \A i \in 1..(Len(hist) - 1) : IsNoop(hist[i]) \/ Decodable(hist[i])
    /\ (hist # <<>> /\ IsDone(Last(hist)))
          => pc = "Returned" /\ outcome = Ok(retval)
    /\ (hist # <<>> /\ ~IsNoop(Last(hist)) /\ ~Decodable(Last(hist)))
          => pc \in {"Returned", "Panicked"} /\ outcome # NoOutcome
    /\ pc \in {"Returned", "Panicked"} => outcome # NoOutcome

\* End-of-dump was read before the stream bound was reached, and the query
\* returned.
C9_Witness ==
    /\ Len(hist) = 2 /\ Len(hist) < MaxMsgs
    /\ Decodable(hist[1]) /\ IsDone(hist[2])
    /\ pc = "Returned"
    /\ outcome.tag = "Ok"

\* C10: a query returns a successful list only after an end-of-dump message
\* has been read from its response stream.
C10_OkOnlyAfterDone ==
    outcome.tag = "Ok" => (hist # <<>> /\ IsDone(Last(hist)))

\* C11: when router.send fails, the query returns that error to its caller
\* without entering Receiving: nothing is read from a response stream, no
\* record is accumulated, and no list is returned.
C11_SendFailureReturnsErr ==
    (ncalls > 0 /\ ~send_ok) =>
        /\ pc = "Returned"
        /\ outcome = Err("send")
        /\ hist = <<>>
        /\ retval = <<>>

\* A query whose send failed, after an earlier query whose send succeeded.
C11_Witness ==
    /\ ncalls = 2 /\ nsent = 1
    /\ ~send_ok
    /\ outcome.tag = "Err"

\* C12: a successful list has as many records as ordinary-payload messages
\* were read from the response stream; a payload that fails to decode ends
\* the query with an error returned to the caller, so it is never skipped and
\* the records accumulated before it are never returned.
C12_ListMatchesPayloads ==
    /\ outcome.tag = "Ok" => Len(outcome.val) = NumPayloads(hist)
    /\ \A i \in 1..Len(hist) :
          (IsPayload(hist[i]) /\ ~TryFrom_Attrs(hist[i]).ok)
             => /\ i = Len(hist)
                /\ pc = "Returned"
                /\ outcome = Err("DeError")

\* A payload was accumulated and the next one failed to decode: the query
\* returned the decode error.
C12_Witness ==
    /\ Len(hist) = 2
    /\ Decodable(hist[1])
    /\ IsPayload(hist[2]) /\ ~TryFrom_Attrs(hist[2]).ok
    /\ Len(retval) = 1
    /\ outcome = Err("DeError")

\* C13: the family is resolved exactly once, at connect; the Connection's
\* family id stays what that resolution returned, and every request of every
\* query is sent to that id with the request and dump flags both set.
C13_FamilyResolvedOnce ==
    /\ conn.open => /\ resolve_calls = 1
                    /\ conn.family_id = connect_in.resolved
                    /\ conn.family_id \in FamilyIds
    /\ ncalls > 0 => /\ conn.open
                     /\ resolve_calls = 1
                     /\ request.family_id = connect_in.resolved
                     /\ request.flags = {"REQUEST", "DUMP"}

\* A second query went out after a first one whose send failed, both on the
\* family id resolved at connect.
C13_Witness ==
    /\ ncalls = 2 /\ nsent = 1
    /\ send_ok
    /\ resolve_calls = 1
    /\ request.family_id = conn.family_id

\* C15: the request built for a query has an empty attribute list when no
\* filter is given and, for a filter i, exactly one attribute: an AttrIfindex
\* attribute of four bytes whose value read back is i.
C15_FilterAttributeRoundTrip ==
    ncalls > 0 =>
        /\ ~args.interface_index.some => request.attrs = <<>>
        /\ args.interface_index.some =>
              /\ Len(request.attrs) = 1
              /\ request.attrs[1].nla_type = "AttrIfindex"
              /\ Len(request.attrs[1].nla_payload) = 4
              /\ \A k \in 1..4 : request.attrs[1].nla_payload[k] \in 0..255
              /\ FromBytes_i32(request.attrs[1].nla_payload)
                    = args.interface_index.v

\* A query filtered on the most negative index was sent.
C15_Witness ==
    /\ nsent > 0 /\ send_ok
    /\ args.interface_index = Some(I32Min)
    /\ request.attrs[1].nla_payload = <<0, 0, 0, 128>>

\* C14: each call of a query is one dump cycle from an empty accumulator and
\* keeps nothing of earlier calls: its request and its frame (state,
\* accumulator, result) are those of get_info_vec run on its own command,
\* filter, send result and response stream alone; starting a call sends at
\* most one request and empties the accumulator and the stream read so far,
\* and no request is sent at any other step.
C14_OwnInputs ==
    ncalls > 0 =>
        LET own == RunOf(variant, args.interface_index, args.cmd,
                         conn.family_id, send_ok, hist)
        IN /\ request = own.request
           /\ Frame = own.frame
           /\ nsent <= ncalls

C14_OneCycle ==
    /\ ncalls' = ncalls + 1 =>
          /\ nsent' = nsent + (IF send_ok' THEN 1 ELSE 0)
          /\ hist' = <<>> /\ retval' = <<>>
    /\ ncalls' = ncalls =>
          /\ nsent' = nsent /\ request' = request /\ args' = args

C14_OneCyclePerCall == []C14_OwnInputs /\ [][C14_OneCycle]_vars

\* The previous call ended in an error after accumulating records, and this
\* call returned the one record of its own stream.
C14_Witness ==
    /\ ncalls = 2
    /\ prev
    /\ Len(hist) = 2 /\ Decodable(hist[1]) /\ IsDone(hist[2])
    /\ outcome = Ok(<<TryFrom_Attrs(hist[1]).rec>>)

\* C16: on one Connection at most one dump is in flight: a query starts only
\* when no query of that Connection is between its send and its return, so
\* the steps of two dumps on it never interleave.  Two Connections interleave
\* at any step without affecting each other: a step of one leaves the other
\* as it was, and each one's request and frame are those of get_info_vec run
\* on its own inputs alone.
C16_OwnRun(c) ==
    c.ncalls > 0 =>
        LET own == RunOf(c.variant, c.args.interface_index, c.args.cmd,
                         c.conn.family_id, c.send_ok, c.hist)
        IN /\ c.request = own.request
           /\ c.pc = own.frame.pc
           /\ c.retval = own.frame.retval
           /\ c.outcome = own.frame.outcome

C16_Independent == C16_OwnRun(Self) /\ C16_OwnRun(peer)

C16_Exclusive ==
    /\ cur' = cur =>
          /\ peer' = peer
          /\ ncalls' # ncalls => pc \in {"Idle", "Returned"}
          /\ hist' # hist /\ ncalls' = ncalls =>
                pc = "Receiving" /\ args' = args /\ request' = request
    /\ cur' # cur => peer' = Self /\ Self' = peer

C17_OtherIsPayload ==
    (ncalls > 0 /\ send_ok) =>
        /\ Frame = RunOf(variant, args.interface_index, args.cmd,
                         conn.family_id, send_ok, Retype(hist)).frame
        /\ (hist # <<>> /\ Decodable(Last(hist))) =>
              /\ pc = "Receiving"
              /\ outcome = NoOutcome
              /\ retval = Append(RunOf(variant, args.interface_index, args.cmd,
                                       conn.family_id, send_ok,
                                       Front(hist)).frame.retval,
                                 TryFrom_Attrs(Last(hist)).rec)

\* An overrun message was read after a family message and its record was
\* appended behind that message's.
C17_Witness ==
    /\ pc = "Receiving"
    /\ Len(hist) = 2
    /\ hist[1] = Msg("Family", TRUE, TRUE, 1)
    /\ hist[2] = Msg("Overrun", TRUE, TRUE, 2)
    /\ retval = <<[index |-> Some(1)], [index |-> Some(2)]>>

====
